---- MODULE Spec2Model ----
(***************************************************************************)
(* The data mover of the P&L wizard: FinishPage.initializePage of          *)
(* src/src/wizard.pyw.  For every (source sheet, destination sheet) pair   *)
(* of the sheet-mapping table it indexes the source rows into source_data  *)
(* and then walks the destination rows, resolving each row's keyword       *)
(* through map_dict and search_map and writing columns B, D and F.         *)
(*                                                                         *)
(* Text is a sequence of one-character strings, so that prefixes, suffixes *)
(* and substrings can be computed.  A cell value is a pair <<type, text>>: *)
(* Python's None, a str, or a number written by its decimal digits.        *)
(***************************************************************************)
EXTENDS Integers, Sequences, FiniteSets

\* ------------------------------------------------------------------ bounds
\* Longest source worksheet, in rows.
MaxSrcRows == 3
\* Number of rows of every destination worksheet.
MaxDstRows == 6

\* ------------------------------------------------------- program constants
\* `if row > 5:` the header rows that get no number format.
HeaderRows == 5
\* The display format applied to B, D and F.
NumberFormat == "#,##0.00;-#,##0.00"
\* worksheet_iter(sh, 1, ...): the row number of the first row iterated.
FirstRow == 1

\* ------------------------------------------------------------- cell values
None == <<"None", <<>>>>
Str(s) == <<"str", s>>
Num(s) == <<"num", s>>
EmptyStr == Str(<<>>)
Zero == Num(<<"0">>)

\* Python truth value of a cell value: None, "" and the number 0 are falsy.
Truthy(c) ==
    \/ c[1] = "str" /\ c[2] # <<>>
    \/ c[1] = "num" /\ c[2] # <<"0">>

\* Python `x or y`.
Or(x, y) == IF Truthy(x) THEN x ELSE y

\* Python any(values).
Any(values) == \E i \in 1..Len(values) : Truthy(values[i])

\* str(row): the decimal digits of a positive integer.
DigitChars == <<"0", "1", "2", "3", "4", "5", "6", "7", "8", "9">>

RECURSIVE DigitsOf(_)
DigitsOf(n) ==
    IF n < 10 THEN <<DigitChars[n + 1]>>
    ELSE DigitsOf(n \div 10) \o <<DigitChars[(n % 10) + 1]>>

StrOfInt(n) == Str(DigitsOf(n))

\* ------------------------------------------- insertion-ordered dictionaries
\* A Python dict is a sequence of <<key, value>> pairs in insertion order.
DictHas(d, k) == \E i \in 1..Len(d) : d[i][1] = k

DictGet(d, k) == d[CHOOSE i \in 1..Len(d) : d[i][1] = k][2]

\* Variant: dict.setdefault(k, v), an existing key keeps its value.
DictSetDefault(d, k, v) ==
    IF DictHas(d, k) THEN d ELSE Append(d, <<k, v>>)

\* Variant: an existing key is removed and entered again at the end.
DictSetMoveToEnd(d, k, v) ==
    Append(SelectSeq(d, LAMBDA e : e[1] # k), <<k, v>>)

\* d[k] = v: an existing key keeps its position and takes the new value.
DictSet(d, k, v) ==
    IF DictHas(d, k)
    THEN [i \in 1..Len(d) |-> IF d[i][1] = k THEN <<k, v>> ELSE d[i]]
    ELSE Append(d, <<k, v>>)

\* ------------------------------------------------------------ text helpers
IsPrefix(t, s) == Len(t) <= Len(s) /\ SubSeq(s, 1, Len(t)) = t

IsSuffix(t, s) ==
    Len(t) <= Len(s) /\ SubSeq(s, Len(s) - Len(t) + 1, Len(s)) = t

IsInfix(t, s) ==
    \E i \in 0..(Len(s) - Len(t)) : SubSeq(s, i + 1, i + Len(t)) = t

\* str.split(","): the parts of s between commas.
RECURSIVE SplitComma(_)
SplitComma(s) ==
    IF \A i \in 1..Len(s) : s[i] # ","
    THEN <<s>>
    ELSE LET i == CHOOSE j \in 1..Len(s) :
                      s[j] = "," /\ \A h \in 1..(j - 1) : s[h] # ","
         IN  <<SubSeq(s, 1, i - 1)>> \o SplitComma(SubSeq(s, i + 1, Len(s)))

\* --------------------------------------------------------------- search_map
\* The result of search_map: <<"tuple", values>>, or <<"None", <<>>>> for no
\* match.  The caller also provides for <<"raise", <<>>>>, an exception
\* leaving the call, which the search_map below never produces.
Found(values) == <<"tuple", values>>
NoMatch == <<"None", <<>>>>

\* The regular expressions of the model: literal text, optionally anchored
\* by a leading "^" and a trailing "$"; a "(" opens a group that is never
\* closed, which re.compile rejects.
ReValid(term) == \A i \in 1..Len(term) : term[i] # "("

ReSearch(term, s) ==
    LET head == Len(term) > 0 /\ term[1] = "^"
        tail == Len(term) > 0 /\ term[Len(term)] = "$"
        body == SubSeq(term, IF head THEN 2 ELSE 1,
                             IF tail THEN Len(term) - 1 ELSE Len(term))
    IN  CASE head /\ tail -> s = body
          [] head /\ ~tail -> IsPrefix(body, s)
          [] ~head /\ tail -> IsSuffix(body, s)
          [] OTHER -> IsInfix(body, s)

\* Does the key of a source_data entry satisfy the method's predicate?
KeyMatches(method, term, key) ==
    CASE method = "exact" -> key[2] = term
      [] method = "starts" -> IsPrefix(term, key[2])
      [] method = "ends" -> IsSuffix(term, key[2])
      [] method = "contains" -> IsInfix(term, key[2])
      [] method = "re" -> ReSearch(term, key[2])
      [] OTHER -> FALSE

\* The first entry, in insertion order, whose key matches.
FirstMatch(source_data, method, term) ==
    IF \E i \in 1..Len(source_data) : KeyMatches(method, term, source_data[i][1])
    THEN LET i == CHOOSE j \in 1..Len(source_data) :
                      /\ KeyMatches(method, term, source_data[j][1])
                      /\ \A h \in 1..(j - 1) :
                             ~KeyMatches(method, term, source_data[h][1])
         IN  Found(source_data[i][2])
    ELSE NoMatch

\* `set`: the term in all three positions.
SetValues(term) == <<Str(term), Str(term), Str(term)>>

\* `each`: the comma-separated parts by position, missing positions empty.
EachValues(term) ==
    LET parts == SplitComma(term)
    IN  [i \in 1..3 |-> IF i <= Len(parts) THEN Str(parts[i]) ELSE EmptyStr]

\* An invalid pattern of an `re` rule is a lookup miss.
search_map(source_data, method, term) ==
    CASE method = "set" -> Found(SetValues(term))
      [] method = "each" -> Found(EachValues(term))
      [] method = "re" /\ ~ReValid(term) -> NoMatch
      [] OTHER -> FirstMatch(source_data, method, term)

\* ------------------------------------------------------------- worksheets
\* The modelled columns of a destination row: A is read, B, D and F are
\* written.
DstCols == {"A", "B", "D", "F"}

\* A source worksheet is the sequence of the rows worksheet_iter yields, each
\* a record over SRC_COLUMNS; row i of the sequence has row number
\* FirstRow + i - 1.  A destination worksheet holds a value and a number
\* format for every cell.
RowNumber(i) == FirstRow + i - 1

\* worksheet_set_number_format and worksheet_cell_set_raw, as operations on
\* a destination worksheet.
FormatOp(col, row) == [op |-> "format", col |-> col, row |-> row, arg |-> None]
SetOp(col, row, value) == [op |-> "set", col |-> col, row |-> row, arg |-> value]

ApplyOp(sheet, o) ==
    IF o.op = "format"
    THEN [sheet EXCEPT !.fmt[<<o.col, o.row>>] = NumberFormat]
    ELSE [sheet EXCEPT !.val[<<o.col, o.row>>] = o.arg]

RECURSIVE ApplyOps(_, _)
ApplyOps(sheet, os) ==
    IF os = <<>> THEN sheet
    ELSE ApplyOps(ApplyOp(sheet, Head(os)), Tail(os))

\* ------------------------------------------------------- the source indexer
\* Variant: the columns are tried in the order C, D, E.
RowKeyReversed(row, data) == Or(Or(Or(data.C, data.D), data.E), StrOfInt(row))

\* key = data["E"] or data["D"] or data["C"] or str(row)
RowKey(row, data) == Or(Or(Or(data.E, data.D), data.C), StrOfInt(row))

\* values = data["F"], data["G"], data["H"]
RowValues(data) == <<data.F, data.G, data.H>>

\* Variant: every row is entered, with or without values.
IndexedAlways(source_data, row, data) ==
    DictSet(source_data, RowKey(row, data), RowValues(data))

\* if any(values): source_data[key] = values
Indexed(source_data, row, data) ==
    IF Any(RowValues(data))
    THEN DictSet(source_data, RowKey(row, data), RowValues(data))
    ELSE source_data

\* ------------------------------------------------------ the transfer driver
\* `if not values`: None or an empty tuple.
NotValues(result) ==
    result[1] = "None" \/ (result[1] = "tuple" /\ Len(result[2]) = 0)

\* Variant: `if row >= 5`.
FormatOpsFromHeader(row) ==
    IF row >= HeaderRows
    THEN <<FormatOp("B", row), FormatOp("D", row), FormatOp("F", row)>>
    ELSE <<>>

\* `if row > 5`: the number format on B, D, F.
FormatOps(row) ==
    IF row > HeaderRows
    THEN <<FormatOp("B", row), FormatOp("D", row), FormatOp("F", row)>>
    ELSE <<>>

\* Variant: the number 0 is written in place of the text "0".
ZeroFillOpsNumber(row) ==
    <<SetOp("B", row, Zero), SetOp("D", row, Zero), SetOp("F", row, Zero)>>

ZeroFillOps(row) ==
    <<SetOp("B", row, Str(<<"0">>)), SetOp("D", row, Str(<<"0">>)),
      SetOp("F", row, Str(<<"0">>))>>

\* Variant: a write is made only for the values that are not empty.
WriteOpsNonEmpty(row, values) ==
    SelectSeq(<<SetOp("B", row, values[1]), SetOp("D", row, values[2]),
                SetOp("F", row, values[3])>>,
              LAMBDA o : Truthy(o.arg))

\* Variant: the second and third values change places.
WriteOpsSwapped(row, values) ==
    <<SetOp("B", row, values[1]), SetOp("D", row, values[3]),
      SetOp("F", row, values[2])>>

WriteOps(row, values) ==
    <<SetOp("B", row, values[1]), SetOp("D", row, values[2]),
      SetOp("F", row, values[3])>>

\* Variant: the keyword is stripped and lower-cased before the lookup.
LookupKeyFolded(keyword) ==
    LET bare == SelectSeq(keyword[2], LAMBDA ch : ch # " ")
    IN  <<keyword[1], [i \in 1..Len(bare) |->
                          IF bare[i] = "K" THEN "k" ELSE bare[i]]>>

\* The key looked up in map_dict: the cell value of column A as it is.
LookupKey(keyword) == keyword

\* Is the destination row skipped: `not keyword`, or `keyword not in map_dict`.
Skipped(keyword, rules) ==
    \/ ~Truthy(keyword)
    \/ Truthy(keyword) /\ ~DictHas(rules, LookupKey(keyword))

\* The result of search_map for a destination row that is not skipped.
Resolved(keyword, rules, index) ==
    LET rule == DictGet(rules, LookupKey(keyword))
    IN  search_map(index, rule[1], rule[2])

\* The worksheet operations of one pass of the destination loop body, in
\* the order they are made.
RowOps(row, keyword, rules, index) ==
    IF Skipped(keyword, rules) THEN <<>>
    ELSE LET values == Resolved(keyword, rules, index)
         IN  FormatOps(row) \o
             (IF values[1] = "raise" THEN <<>>
              ELSE IF NotValues(values) THEN ZeroFillOps(row)
              ELSE WriteOps(row, values[2]))

\* Does an exception leave the loop body (nothing in it catches one)?
RowRaises(keyword, rules, index) ==
    ~Skipped(keyword, rules) /\ Resolved(keyword, rules, index)[1] = "raise"

\* The destination row visited after row position pos: `continue` and the
\* end of the loop body both go on with the next row.
NextDstPos(pos) == pos + 1

\* Variant of the zero-fill branch: `break` in place of `continue`.
AfterZeroFillBreak(pos) == MaxDstRows

\* The row visited after a zero-filled row at position pos: `continue`.
AfterZeroFill(pos) == NextDstPos(pos)

\* Variant: source_data is created once, before the loop over the pairs.
CarriedIndex(previous) == previous

\* source_data = {} at the head of each pair: the index starts empty,
\* whatever the previous pair left in it.
FreshIndex(previous) == <<>>

\* Variant: the rows of the table are read from the last to the first.
RECURSIVE SheetMapOfReversed(_)
SheetMapOfReversed(rows) ==
    IF rows = <<>> THEN <<>>
    ELSE DictSet(SheetMapOfReversed(Tail(rows)), Head(rows)[1], Head(rows)[2])

\* sheet_map_src2dst[src] = dst for every row of the table.
RECURSIVE SheetMapOf(_)
SheetMapOf(rows) ==
    IF rows = <<>> THEN <<>>
    ELSE DictSet(SheetMapOf(SubSeq(rows, 1, Len(rows) - 1)),
                 rows[Len(rows)][1], rows[Len(rows)][2])

\* ------------------------------------------------------------------ inputs
SrcRow(c, d, e, values) ==
    [C |-> c, D |-> d, E |-> e,
     F |-> values[1], G |-> values[2], H |-> values[3]]

\* Three amounts that name their row and their column: row 2 holds 21, 22, 23.
ValuesAt(row) ==
    <<Num(DigitsOf(row) \o <<"1">>), Num(DigitsOf(row) \o <<"2">>),
      Num(DigitsOf(row) \o <<"3">>)>>

NoValues == <<None, None, None>>

\* Worksheets of up to MaxSrcRows rows keyed by column E alone, with or
\* without amounts.
LabelCells == {Str(<<"a">>), Str(<<"a", "b">>), Str(<<"b", "a">>)}

LabelRowsAt(i) ==
    {SrcRow(None, None, e, v) :
        e \in LabelCells, v \in {NoValues, ValuesAt(RowNumber(i))}}

RECURSIVE LabelSheets(_)
LabelSheets(n) ==
    IF n = 0 THEN {<<>>}
    ELSE {Append(s, r) : s \in LabelSheets(n - 1), r \in LabelRowsAt(n)}

\* Worksheets of two rows whose second row takes every combination of key
\* cells, or every combination of value cells.
KeyCells ==
    {None, EmptyStr, Zero, Str(<<"a">>), Str(<<"b">>), Str(<<"1">>)}
ValueCells == {None, EmptyStr, Zero, Num(<<"7">>)}

FirstRows ==
    {SrcRow(None, None, Str(<<"a">>), ValuesAt(RowNumber(1))),
     SrcRow(None, None, Str(<<"2">>), ValuesAt(RowNumber(1))),
     SrcRow(None, None, None, ValuesAt(RowNumber(1)))}

KeyRows ==
    {SrcRow(c, d, e, ValuesAt(RowNumber(2))) :
        c \in KeyCells, d \in KeyCells, e \in KeyCells}

ValueRows ==
    {SrcRow(None, None, e, <<f, g, h>>) :
        e \in {None, Str(<<"a">>)},
        f \in ValueCells, g \in ValueCells, h \in ValueCells}

CellSheets == {<<r1, r2>> : r1 \in FirstRows, r2 \in KeyRows \cup ValueRows}

DefaultSheet1 ==
    <<SrcRow(None, None, Str(<<"a", "b">>), ValuesAt(RowNumber(1))),
      SrcRow(None, None, Str(<<"a">>), ValuesAt(RowNumber(2)))>>

DefaultSheet2 ==
    <<SrcRow(None, None, Str(<<"b", "a">>), ValuesAt(RowNumber(9)))>>

\* The rules a map file can give the keyword "k".
LabelRules ==
    {<<m, <<"a">>>> : m \in {"exact", "starts", "ends", "contains", "re"}}
    \cup {<<"re", <<"^", "a">>>>, <<"re", <<"(", "a">>>>}

SearchRules ==
    LabelRules \cup {<<"re", <<"a", "$">>>>, <<"exact", <<"z">>>>}

LiteralRules ==
    {<<"set", <<"n">>>>,
     <<"each", <<"x">>>>,
     <<"each", <<"x", ",", "y">>>>,
     <<"each", <<"x", ",", "y", ",", "z">>>>,
     <<"each", <<"x", ",", "y", ",", "z", ",", "w">>>>}

Rules == SearchRules \cup LiteralRules

\* Column A of a destination worksheet: the keyword "k" of the map file,
\* keywords that differ from it in case or whitespace, and empty cells.
Keywords ==
    {None, EmptyStr, Zero, Str(<<"k">>), Str(<<"K">>), Str(<<"k", " ">>)}

DefaultLabel(row) ==
    CASE row % 5 = 1 -> None
      [] row % 5 = 2 -> Str(<<"k">>)
      [] row % 5 = 3 -> Str(<<"K">>)
      [] row % 5 = 4 -> EmptyStr
      [] OTHER -> Str(<<"k">>)

\* The layouts: the default labels, with the last header row and the first
\* row after the header taking any keyword.
Layout(k1, k2) ==
    [row \in 1..MaxDstRows |->
        IF row = HeaderRows THEN k1
        ELSE IF row = HeaderRows + 1 THEN k2
        ELSE DefaultLabel(row)]

DefaultLayout == Layout(Str(<<"k">>), Str(<<"k">>))

DstCells == DstCols \X (1..MaxDstRows)

DstSheet(layout) ==
    [val |-> [c \in DstCells |-> IF c[1] = "A" THEN layout[c[2]] ELSE None],
     fmt |-> [c \in DstCells |-> "General"]]

SrcSheets == {"S1", "S2"}
DstSheets == {"D1", "D2"}

\* ------------------------------------------------------------------- state
VARIABLES
    table,              \* the sheet-mapping table: rows <<source, destination>>
    map_dict,           \* the parsed map file: keyword -> <<method, term>>
    srcbk,              \* the source workbook: sheet name -> rows
    dstbk,              \* the destination workbook: sheet name -> sheet
    sheet_map_src2dst,  \* the dict built from the table
    pc,                 \* position in initializePage
    pair,               \* number of items of sheet_map_src2dst taken so far
    source_data,        \* the index of the current source worksheet
    srcPos,             \* source rows consumed in the current pair
    dstPos,             \* destination rows visited in the current pair
    row,                \* the loop variable `row` of both loops
    ops,                \* worksheet operations of the last loop body run
    closed              \* has workbook_close(srcbk) been called

vars ==
    <<table, map_dict, srcbk, dstbk, sheet_map_src2dst, pc, pair,
      source_data, srcPos, dstPos, row, ops, closed>>

inputs == <<table, map_dict, srcbk>>

srcshname == sheet_map_src2dst[pair][1]
dstshname == sheet_map_src2dst[pair][2]
srcsh == srcbk[srcshname]
dstsh == dstbk[dstshname]

\* Indexing worksheets: many source worksheets, one rule per search method.
InitLabels ==
    /\ \E s \in UNION {LabelSheets(n) : n \in 0..MaxSrcRows} :
           srcbk = [n \in SrcSheets |-> IF n = "S1" THEN s ELSE DefaultSheet2]
    /\ \E r \in LabelRules : map_dict = <<<<Str(<<"k">>), r>>>>
    /\ table = <<<<"S1", "D1">>, <<"S2", "D2">>>>
    /\ dstbk = [n \in DstSheets |-> DstSheet(DefaultLayout)]

\* Indexing single rows: every combination of cells in one row.
InitCells ==
    /\ \E s \in CellSheets :
           srcbk = [n \in SrcSheets |-> IF n = "S1" THEN s ELSE DefaultSheet2]
    /\ \E r \in {<<"exact", <<"a">>>>, <<"contains", <<"1">>>>} :
           map_dict = <<<<Str(<<"k">>), r>>>>
    /\ table = <<<<"S1", "D1">>, <<"S2", "D2">>>>
    /\ dstbk = [n \in DstSheets |-> DstSheet(DefaultLayout)]

\* Transfer: every rule, every layout, every sheet mapping.
InitTransfer ==
    /\ \E s \in {DefaultSheet2, <<>>} :
           srcbk = [n \in SrcSheets |-> IF n = "S1" THEN DefaultSheet1 ELSE s]
    /\ \E r \in Rules : map_dict = <<<<Str(<<"k">>), r>>>>
    /\ \E d1 \in DstSheets, d2 \in DstSheets :
           table = <<<<"S1", d1>>, <<"S2", d2>>>>
    /\ \E k1 \in Keywords, k2 \in Keywords :
           dstbk = [n \in DstSheets |-> DstSheet(Layout(k1, k2))]

Init ==
    /\ InitLabels \/ InitCells \/ InitTransfer
    /\ sheet_map_src2dst = <<>>
    /\ pc = "start"
    /\ pair = 0
    /\ source_data = <<>>
    /\ srcPos = 0
    /\ dstPos = 0
    /\ row = 0
    /\ ops = <<>>
    /\ closed = FALSE

\* ----------------------------------------------------------------- actions
\* Lines 250-267: the dict of the sheet pairs (the map file is already parsed).
BuildSheetMap ==
    /\ pc = "start"
    /\ sheet_map_src2dst' = SheetMapOf(table)
    /\ pc' = "pairs"
    /\ UNCHANGED <<inputs, dstbk, pair, source_data, srcPos, dstPos, row, ops,
                   closed>>

\* Lines 269-274: the next pair; source_data = {}.
LoadPair ==
    /\ pc = "pairs"
    /\ pair < Len(sheet_map_src2dst)
    /\ pair' = pair + 1
    /\ source_data' = FreshIndex(source_data)
    /\ srcPos' = 0
    /\ dstPos' = 0
    /\ ops' = <<>>
    /\ pc' = "index"
    /\ UNCHANGED <<inputs, dstbk, sheet_map_src2dst, row, closed>>

\* Lines 276-282: one source row.
IndexRow ==
    /\ pc = "index"
    /\ srcPos < Len(srcsh)
    /\ source_data' =
           Indexed(source_data, RowNumber(srcPos + 1), srcsh[srcPos + 1])
    /\ srcPos' = srcPos + 1
    /\ row' = RowNumber(srcPos + 1)
    /\ UNCHANGED <<inputs, dstbk, sheet_map_src2dst, pc, pair, dstPos, ops, closed>>

\* The source rows are exhausted: line 284 starts the destination loop.
IndexDone ==
    /\ pc = "index"
    /\ srcPos = Len(srcsh)
    /\ pc' = "transfer"
    /\ UNCHANGED <<inputs, dstbk, sheet_map_src2dst, pair, source_data,
                   srcPos, dstPos, row, ops, closed>>

\* Lines 284-312: one destination row.
TransferRow ==
    /\ pc = "transfer"
    /\ dstPos < MaxDstRows
    /\ LET r == RowNumber(dstPos + 1)
           keyword == dstsh.val[<<"A", r>>]
           done == RowOps(r, keyword, map_dict, source_data)
       IN  /\ row' = r
           /\ ops' = done
           /\ dstbk' = [dstbk EXCEPT ![dstshname] = ApplyOps(dstsh, done)]
           /\ IF RowRaises(keyword, map_dict, source_data)
              THEN pc' = "raised" /\ dstPos' = dstPos + 1
              ELSE /\ pc' = pc
                   /\ dstPos' =
                          IF /\ ~Skipped(keyword, map_dict)
                             /\ NotValues(Resolved(keyword, map_dict, source_data))
                          THEN AfterZeroFill(dstPos)
                          ELSE NextDstPos(dstPos)
    /\ UNCHANGED <<inputs, sheet_map_src2dst, pair, source_data, srcPos, closed>>

\* The destination rows are exhausted: back to line 269.
TransferDone ==
    /\ pc = "transfer"
    /\ dstPos >= MaxDstRows
    /\ pc' = "pairs"
    /\ UNCHANGED <<inputs, dstbk, sheet_map_src2dst, pair, source_data,
                   srcPos, dstPos, row, ops, closed>>

\* Line 314: workbook_close(srcbk).
Close ==
    /\ pc = "pairs"
    /\ pair = Len(sheet_map_src2dst)
    /\ closed' = TRUE
    /\ pc' = "done"
    /\ UNCHANGED <<inputs, dstbk, sheet_map_src2dst, pair, source_data,
                   srcPos, dstPos, row, ops>>

Next ==
    \/ BuildSheetMap
    \/ LoadPair
    \/ IndexRow
    \/ IndexDone
    \/ TransferRow
    \/ TransferDone
    \/ Close

Spec == Init /\ [][Next]_vars

\* ------------------------------------------------------------------ claims
\* A destination row has been visited in the current pair, and `row` is it.
DstVisited == pc \in {"transfer", "raised"} /\ dstPos > 0

\* The keyword in column A of the destination row last visited.
LastKeyword == dstsh.val[<<"A", row>>]

\* Is the text of a keyword cell one of the keys of map_dict?
IsRuleKey(keyword) == \E i \in 1..Len(map_dict) : map_dict[i][1] = keyword

\* The rule of the destination row last visited, when it has one.
LastRule == map_dict[CHOOSE i \in 1..Len(map_dict) : map_dict[i][1] = LastKeyword][2]

\* The `set` operations among the operations of the last loop body run.
Writes == SelectSeq(ops, LAMBDA o : o.op = "set")

\* The values now in B, D, F of a row of a destination worksheet.
CellsOf(sheet, r) ==
    <<dstbk[sheet].val[<<"B", r>>], dstbk[sheet].val[<<"D", r>>],
      dstbk[sheet].val[<<"F", r>>]>>

Zeros == <<Str(<<"0">>), Str(<<"0">>), Str(<<"0">>)>>

\* The three writes of a tuple to B, D, F of a row, in that order.
ThreeWrites(r, t) ==
    <<[op |-> "set", col |-> "B", row |-> r, arg |-> t[1]],
      [op |-> "set", col |-> "D", row |-> r, arg |-> t[2]],
      [op |-> "set", col |-> "F", row |-> r, arg |-> t[3]]>>

\* C1 (zero-fill law): when the destination row just visited has a keyword
\* that is a key of map_dict and search_map returned None for its rule, the
\* values written to B, D, F of that row are exactly "0", "0", "0", and the
\* loop goes on with the next destination row.
ZeroFillLaw ==
    (/\ DstVisited
     /\ IsRuleKey(LastKeyword)
     /\ search_map(source_data, LastRule[1], LastRule[2])[1] = "None")
    => /\ Writes = ThreeWrites(row, Zeros)
       /\ CellsOf(dstshname, row) = Zeros
       /\ pc = "transfer"
       /\ dstPos = row - FirstRow + 1

\* A search rule found no key: a row was zero-filled.
ZeroFillWitness ==
    /\ DstVisited
    /\ IsRuleKey(LastKeyword)
    /\ LastRule[1] \in {"exact", "starts", "ends", "contains"}
    /\ source_data # <<>>
    /\ search_map(source_data, LastRule[1], LastRule[2])[1] = "None"
    /\ CellsOf(dstshname, row) = Zeros

\* C2 (skip law): a destination row whose keyword is empty, or is not
\* exactly a key of map_dict, is never written: its B, D and F keep the
\* value and the format the worksheet was loaded with, and visiting it
\* makes no worksheet operation at all.
SkipLaw ==
    /\ \A n \in DstSheets, r \in 1..MaxDstRows :
           ~IsRuleKey(dstbk[n].val[<<"A", r>>])
           => \A c \in {"B", "D", "F"} :
                  /\ dstbk[n].val[<<c, r>>] = None
                  /\ dstbk[n].fmt[<<c, r>>] = "General"
    /\ (DstVisited /\ ~IsRuleKey(LastKeyword)) => ops = <<>>

\* A row whose keyword differs from the key "k" only in case or in trailing
\* whitespace was visited after the header rows, while another row of the
\* same sheet was written.
SkipWitness ==
    /\ DstVisited
    /\ row > HeaderRows
    /\ LastKeyword \in {Str(<<"K">>), Str(<<"k", " ">>)}
    /\ \E r \in 1..MaxDstRows : CellsOf(dstshname, r) # NoValues

\* C3 (no partial write): after a destination row is processed, its B, D
\* and F were written all three with the resolved tuple (position 0 to B,
\* 1 to D, 2 to F), or all three with "0", or not at all.
NoPartialWrite ==
    DstVisited =>
        IF ~IsRuleKey(LastKeyword) THEN Writes = <<>>
        ELSE LET result == search_map(source_data, LastRule[1], LastRule[2])
             IN  IF result[1] = "tuple"
                 THEN /\ Writes = ThreeWrites(row, result[2])
                      /\ CellsOf(dstshname, row) = result[2]
                 ELSE /\ Writes = ThreeWrites(row, Zeros)
                      /\ CellsOf(dstshname, row) = Zeros

\* An `each` rule with two parts wrote a tuple whose third value is empty.
NoPartialWriteWitness ==
    /\ DstVisited
    /\ IsRuleKey(LastKeyword)
    /\ LastRule = <<"each", <<"x", ",", "y">>>>
    /\ CellsOf(dstshname, row) = <<Str(<<"x">>), Str(<<"y">>), EmptyStr>>

\* A source row has just been consumed, and `row` is its number.
SrcVisited == pc = "index" /\ srcPos > 0

\* A cell counts as empty when it is falsy, the reading of section 4.2 of the
\* specification ("first truthy value wins", "if all three are falsy"): None,
\* the empty text, and also a cell holding the number 0.
EmptyCell(c) == c \in {None, EmptyStr, Zero}

HasValue(data) == ~EmptyCell(data.F) \/ ~EmptyCell(data.G) \/ ~EmptyCell(data.H)

\* The row number as a decimal text, for the row numbers of the model.
Decimal(n) ==
    IF n < 10 THEN <<"str", <<DigitChars[n + 1]>>>>
    ELSE <<"str", <<DigitChars[(n \div 10) + 1], DigitChars[(n % 10) + 1]>>>>

\* The key the claim gives a source row: E, else D, else C, else the number.
PriorityKey(n, data) ==
    IF ~EmptyCell(data.E) THEN data.E
    ELSE IF ~EmptyCell(data.D) THEN data.D
    ELSE IF ~EmptyCell(data.C) THEN data.C
    ELSE Decimal(n)

\* The keys of source_data whose entry holds exactly these values.
KeysHolding(values) ==
    {source_data[i][1] : i \in {j \in 1..Len(source_data) : source_data[j][2] = values}}

\* C4 (row-key selection): a source row that is indexed is entered under the
\* E value if E is not empty, else the D value if D is not empty, else the C
\* value if C is not empty, else the decimal text of its row number; the
\* entry just made holds the row's (F, G, H).
RowKeySelection ==
    (SrcVisited /\ HasValue(srcsh[srcPos]))
    => LET data == srcsh[srcPos]
           key == PriorityKey(row, data)
       IN  /\ \E i \in 1..Len(source_data) :
                  source_data[i] = <<key, <<data.F, data.G, data.H>>>>
           /\ KeysHolding(<<data.F, data.G, data.H>>) = {key}

\* A row with text in E, D and C was entered under E, and a row with E, D
\* and C all empty under its row number.
RowKeyWitness ==
    /\ SrcVisited
    /\ HasValue(srcsh[srcPos])
    /\ srcsh[srcPos].E = Str(<<"a">>)
    /\ srcsh[srcPos].D = Str(<<"b">>)
    /\ srcsh[srcPos].C = Str(<<"1">>)
    /\ KeysHolding(<<srcsh[srcPos].F, srcsh[srcPos].G, srcsh[srcPos].H>>)
           = {Str(<<"a">>)}

\* C5 (exclusion law): consuming a source row whose F, G and H are all
\* empty leaves source_data as it was: no entry is made, overwritten or
\* removed.
ExclusionLaw ==
    [][(/\ pc = "index"
        /\ srcPos' = srcPos + 1
        /\ srcsh[srcPos + 1].F \in {None, EmptyStr}
        /\ srcsh[srcPos + 1].G \in {None, EmptyStr}
        /\ srcsh[srcPos + 1].H \in {None, EmptyStr})
       => source_data' = source_data]_vars

\* A row without values was consumed whose key already had an entry.
ExclusionWitness ==
    /\ SrcVisited
    /\ srcPos > 1
    /\ srcsh[srcPos].F \in {None, EmptyStr}
    /\ srcsh[srcPos].G \in {None, EmptyStr}
    /\ srcsh[srcPos].H \in {None, EmptyStr}
    /\ \E i \in 1..Len(source_data) :
           source_data[i][1] = PriorityKey(row, srcsh[srcPos])

\* The source rows consumed so far that were indexed: those with a value.
IndexedRows == {j \in 1..srcPos : HasValue(srcsh[j])}

KeyOfRow(j) == PriorityKey(RowNumber(j), srcsh[j])

ValuesOfRow(j) == <<srcsh[j].F, srcsh[j].G, srcsh[j].H>>

Earliest(S) == CHOOSE j \in S : \A h \in S : j <= h

Latest(S) == CHOOSE j \in S : \A h \in S : j >= h

\* C10 (duplicate keys, last occurrence wins): source_data has one entry for
\* each key of an indexed row, and the entry holds the (F, G, H) of the last
\* row in scan order that has that key and a value that is not empty.
LastOccurrenceWins ==
    pc \in {"index", "transfer"}
    => /\ \A j \in IndexedRows :
              \E i \in 1..Len(source_data) : source_data[i][1] = KeyOfRow(j)
       /\ \A i \in 1..Len(source_data) :
              LET same == {j \in IndexedRows : KeyOfRow(j) = source_data[i][1]}
              IN  /\ same # {}
                  /\ source_data[i][2] = ValuesOfRow(Latest(same))
       /\ \A i, h \in 1..Len(source_data) :
              source_data[i][1] = source_data[h][1] => i = h

\* Two rows with the same key and different values were indexed, and the
\* single entry of that key holds the values of the later one.
LastOccurrenceWitness ==
    /\ pc = "index"
    /\ srcPos >= 2
    /\ \E j, h \in IndexedRows :
           /\ j < h
           /\ KeyOfRow(j) = KeyOfRow(h)
           /\ ValuesOfRow(j) # ValuesOfRow(h)
           /\ Latest({g \in IndexedRows : KeyOfRow(g) = KeyOfRow(j)}) = h
           /\ \E i \in 1..Len(source_data) :
                  source_data[i] = <<KeyOfRow(h), ValuesOfRow(h)>>

\* The format operations among the operations of the last loop body run.
Formats == SelectSeq(ops, LAMBDA o : o.op = "format")

ThreeFormats(r) ==
    <<[op |-> "format", col |-> "B", row |-> r, arg |-> None],
      [op |-> "format", col |-> "D", row |-> r, arg |-> None],
      [op |-> "format", col |-> "F", row |-> r, arg |-> None]>>

\* C6 (formatting law): no cell of a destination row with row number <= 5
\* ever gets the number format, written or not; a row with row number > 5
\* that has a rule gets it on B, D and F whenever it is visited, whether the
\* rule resolves to a tuple or to None, and before the values are written.
FormattingLaw ==
    /\ \A n \in DstSheets, r \in 1..MaxDstRows, c \in DstCols :
           r <= 5 => dstbk[n].fmt[<<c, r>>] # NumberFormat
    /\ (DstVisited /\ row <= 5) => Formats = <<>>
    /\ (DstVisited /\ row > 5 /\ IsRuleKey(LastKeyword))
       => /\ ops = ThreeFormats(row) \o Writes
          /\ Len(Writes) = 3
          /\ \A c \in {"B", "D", "F"} : dstsh.fmt[<<c, row>>] = NumberFormat

\* Row 6 was zero-filled and formatted, while row 5 of the same worksheet
\* holds written values and no number format.
FormattingWitness ==
    /\ DstVisited
    /\ row = 6
    /\ IsRuleKey(LastKeyword)
    /\ CellsOf(dstshname, 6) = Zeros
    /\ dstsh.fmt[<<"B", 6>>] = NumberFormat
    /\ CellsOf(dstshname, 5) = Zeros
    /\ dstsh.fmt[<<"B", 5>>] = "General"

\* C8 (literal methods): whatever source_data holds, a `set` rule writes the
\* term to B, D and F, and an `each` rule writes the comma-separated parts of
\* its term by position, the first to B, the second to D, the third to F, an
\* absent part as the empty text.
LiteralMethods ==
    (DstVisited /\ IsRuleKey(LastKeyword))
    => LET term == LastRule[2]
           parts == SplitComma(term)
           part(i) == IF i <= Len(parts) THEN <<"str", parts[i]>>
                      ELSE <<"str", <<>>>>
       IN  /\ LastRule[1] = "set"
              => Writes = ThreeWrites(row, <<<<"str", term>>, <<"str", term>>,
                                             <<"str", term>>>>)
           /\ LastRule[1] = "each"
              => Writes = ThreeWrites(row, <<part(1), part(2), part(3)>>)
           /\ LastRule = <<"each", <<"x", ",", "y", ",", "z">>>>
              => CellsOf(dstshname, row)
                     = <<Str(<<"x">>), Str(<<"y">>), Str(<<"z">>)>>
           /\ LastRule = <<"each", <<"x", ",", "y">>>>
              => CellsOf(dstshname, row)
                     = <<Str(<<"x">>), Str(<<"y">>), EmptyStr>>

\* With an empty source_data, an `each` rule of three parts wrote them.
LiteralWitness ==
    /\ DstVisited
    /\ source_data = <<>>
    /\ IsRuleKey(LastKeyword)
    /\ LastRule = <<"each", <<"x", ",", "y", ",", "z">>>>
    /\ CellsOf(dstshname, row) = <<Str(<<"x">>), Str(<<"y">>), Str(<<"z">>)>>

\* The map file holds an `re` rule whose term is no regular expression.
BadRegex ==
    \E i \in 1..Len(map_dict) :
        /\ map_dict[i][2][1] = "re"
        /\ \E h \in 1..Len(map_dict[i][2][2]) : map_dict[i][2][2][h] = "("

\* C9 (an invalid `re` term does not abort the run): with such a rule in the
\* map file no exception leaves the loop; each row of the rule is
\* zero-filled and the loop goes on with the next row; every row of every
\* pair is processed; and the source workbook is closed at the end.
RegexFaultAbsorbed ==
    BadRegex
    => /\ pc # "raised"
       /\ (DstVisited /\ IsRuleKey(LastKeyword))
          => /\ Writes = ThreeWrites(row, Zeros)
             /\ dstPos = row - FirstRow + 1
       /\ (pc = "pairs" /\ pair > 0)
          => srcPos = Len(srcsh) /\ dstPos = MaxDstRows
       /\ pc # "done" => ENABLED Next
       /\ pc = "done"
          => /\ closed
             /\ pair = Len(table)
             /\ \A i \in 1..Len(table), r \in 1..MaxDstRows :
                    IsRuleKey(dstbk[table[i][2]].val[<<"A", r>>])
                    => CellsOf(table[i][2], r) = Zeros

\* The run ended with the workbook closed and rows of both destination
\* worksheets zero-filled by the invalid `re` rule.
RegexFaultWitness ==
    /\ BadRegex
    /\ pc = "done"
    /\ closed
    /\ CellsOf("D1", 6) = Zeros
    /\ CellsOf("D2", 6) = Zeros

\* The rule of the row last visited is a search rule (exact, starts, ends,
\* contains, or re with a valid pattern).
SearchRuleVisited ==
    /\ DstVisited
    /\ IsRuleKey(LastKeyword)
    /\ LastRule[1] \in {"exact", "starts", "ends", "contains", "re"}
    /\ \A h \in 1..Len(LastRule[2]) : LastRule[2][h] # "("

\* The indexed source rows of the current worksheet whose key satisfies the
\* predicate of the rule of the row last visited.
MatchingRows ==
    {j \in 1..Len(srcsh) :
        /\ HasValue(srcsh[j])
        /\ KeyMatches(LastRule[1], LastRule[2], KeyOfRow(j))}

FallbackRows ==
    {j \in IndexedRows :
        /\ srcsh[j].E \in {None, EmptyStr}
        /\ srcsh[j].D \in {None, EmptyStr}
        /\ srcsh[j].C \in {None, EmptyStr}}

\* C11 (fallback keys index a row uniquely): a source row with E, D and C
\* empty and a value has an entry of its own under the decimal text of its
\* row number: the entry holds its (F, G, H), and no other indexed row,
\* earlier or later, has that key.
FallbackKeyUnique ==
    pc \in {"index", "transfer"}
    => \A j \in FallbackRows :
           /\ \E i \in 1..Len(source_data) :
                  source_data[i] = <<Decimal(RowNumber(j)), ValuesOfRow(j)>>
           /\ \A h \in IndexedRows \ {j} : KeyOfRow(h) # Decimal(RowNumber(j))

\* A cell that holds something: anything but None and the empty text, so
\* also the number 0.
Filled(c) == c \notin {None, EmptyStr}

\* The row-key with every filled cell taken as a key.
FilledKey(n, data) ==
    IF Filled(data.E) THEN data.E
    ELSE IF Filled(data.D) THEN data.D
    ELSE IF Filled(data.C) THEN data.C
    ELSE Decimal(n)

\* C12 (inclusion): a source row is skipped only when F, G and H are all
\* empty; a row with at least one filled value cell, the number 0 included,
\* has just been entered in source_data with its (F, G, H), under the first
\* filled cell among E, D, C (the number 0 included) or else its row number.
InclusionLaw ==
    (/\ SrcVisited
     /\ Filled(srcsh[srcPos].F) \/ Filled(srcsh[srcPos].G) \/ Filled(srcsh[srcPos].H))
    => \E i \in 1..Len(source_data) :
           source_data[i] = <<FilledKey(row, srcsh[srcPos]), ValuesOfRow(srcPos)>>

\* The rows of the current source worksheet, consumed or not, that have a
\* value, and those among them with a given key.
ValuedRows == {j \in 1..Len(srcsh) : HasValue(srcsh[j])}

RowsKeyed(k) == {j \in ValuedRows : KeyOfRow(j) = k}

\* C13 (indexing is a completed, frozen prerequisite of transfer): no
\* destination row is read while source rows are left, and at every point
\* of a pair's pass over the destination rows source_data is the index of
\* the whole source worksheet of that pair: one entry per key of its valued
\* rows, in order of first appearance, holding the last such row's values,
\* and nothing else (nothing of an earlier pair's worksheet).
FrozenIndex ==
    /\ pc = "index" => dstPos = 0 /\ ops = <<>>
    /\ pc = "transfer"
       => /\ srcPos = Len(srcsh)
          /\ \A j \in ValuedRows :
                 \E i \in 1..Len(source_data) : source_data[i][1] = KeyOfRow(j)
          /\ \A i \in 1..Len(source_data) :
                 /\ RowsKeyed(source_data[i][1]) # {}
                 /\ source_data[i][2]
                        = ValuesOfRow(Latest(RowsKeyed(source_data[i][1])))
          /\ \A i, h \in 1..Len(source_data) :
                 i < h => Earliest(RowsKeyed(source_data[i][1]))
                              < Earliest(RowsKeyed(source_data[h][1]))

\* In the second pair's pass, after a destination row was visited, the index
\* holds the one key of the second worksheet, while the first worksheet had
\* indexed rows under other keys.
FrozenIndexWitness ==
    /\ pc = "transfer"
    /\ pair = 2
    /\ dstPos > 0
    /\ Len(source_data) = 1
    /\ source_data[1][1] = Str(<<"b", "a">>)
    /\ \E j \in 1..Len(srcbk["S1"]) :
           /\ HasValue(srcbk["S1"][j])
           /\ PriorityKey(RowNumber(j), srcbk["S1"][j]) # Str(<<"b", "a">>)

\* The index the source loop builds from the first n rows of a worksheet.
RECURSIVE IndexOf(_, _)
IndexOf(sheet, n) ==
    IF n = 0 THEN <<>>
    ELSE Indexed(IndexOf(sheet, n - 1), RowNumber(n), sheet[n])

\* The rows of the table that pair a source worksheet with destination d.
PairsOnto(d) == {i \in 1..Len(table) : table[i][2] = d}

\* Does row r of destination worksheet d have a keyword with a rule?
Covered(d, r) == ~Skipped(dstbk[d].val[<<"A", r>>], map_dict)

\* What the pair of table row i alone puts in B, D, F of a covered row r of
\* its destination worksheet d.
PairCells(i, d, r) ==
    LET sheet == srcbk[table[i][1]]
        result == Resolved(dstbk[d].val[<<"A", r>>], map_dict,
                           IndexOf(sheet, Len(sheet)))
    IN  IF NotValues(result) THEN Zeros ELSE result[2]

\* C14 (several source worksheets mapped to one destination worksheet): the
\* pairs are taken one by one in the order of the rows of the table, each
\* source worksheet once, and after the last pair every covered row of a
\* destination worksheet holds what the last table row paired with that
\* worksheet puts there: "0", "0", "0" when that pair's source worksheet has
\* no match, whatever an earlier pair had matched.
LastPairWins ==
    /\ pc \in {"index", "transfer"}
       => /\ pair \in 1..Len(table)
          /\ <<srcshname, dstshname>> = table[pair]
    /\ pc = "done"
       => /\ pair = Len(table)
          /\ \A d \in DstSheets, r \in 1..MaxDstRows :
                 (PairsOnto(d) # {} /\ Covered(d, r))
                 => CellsOf(d, r) = PairCells(Latest(PairsOnto(d)), d, r)

\* Both rows of the table name one destination worksheet; for a covered row
\* the first pair has a match and the second has none, and the row ends
\* with "0", "0", "0".
LastPairWitness ==
    /\ pc = "done"
    /\ Len(table) = 2
    /\ table[1][2] = table[2][2]
    /\ \E r \in 1..MaxDstRows :
           /\ Covered(table[1][2], r)
           /\ PairCells(1, table[1][2], r) # Zeros
           /\ PairCells(2, table[1][2], r) = Zeros
           /\ CellsOf(table[1][2], r) = Zeros

====
